---------------------------- MODULE Spec2Model ----------------------------
(***************************************************************************)
(* A model of the flat GFA storage engine:                                 *)
(*   - flatgfa/src/pool.rs : the Pool / Store arena over Vec and SliceVec, *)
(*   - polbin/src/parse.rs : the two-phase Parser and its NameMap,         *)
(*   - flatgfa-py/src/lib.rs : the read-only binding layer.                *)
(*                                                                         *)
(* Integer widths are scaled: an Id is an IdBits-bit unsigned integer      *)
(* (u32 in the source) and a usize is twice as wide (u64 in the source).   *)
(* A panic is modelled as a result record with ok = FALSE.                 *)
(***************************************************************************)
EXTENDS Integers, Sequences, FiniteSets, TLC

VARIABLES
    \* ---- parser (polbin/src/parse.rs) ----
    overflow_checks, \* build profile: TRUE = arithmetic overflow panics (debug),
                     \* FALSE = it wraps (release)
    input,           \* the lines read from the stream so far
    pc,              \* position in Parser::parse
    flat,            \* Parser.flat : FlatGFAStore
    seg_ids,         \* Parser.seg_ids : NameMap
    deferred,        \* the Deferred buffers
    lookups,         \* history: every NameMap::get call that returned
    \* ---- pool (flatgfa/src/pool.rs) and binding layer ----
    pool,            \* the arena contents (a Vec<T> or a SliceVec<T>)
    capacity,        \* backing: 0 = Vec (growable), > 0 = SliceVec of that capacity
    seq_data,        \* the view's sequence byte pool
    phase,           \* "build" | "view" | "panicked"
    ret,             \* the last call and what it returned
    handed,          \* history: every Id handed out by add/add_iter/add_slice
    \* ---- SegmentIter (flatgfa-py/src/lib.rs) ----
    idx,             \* SegmentIter.idx
    yielded          \* history: what every __next__ of this iterator returned

parser_vars == <<overflow_checks, input, pc, flat, seg_ids, deferred, lookups>>
pool_vars == <<pool, capacity, seq_data, phase, ret, handed>>
iter_vars == <<idx, yielded>>
vars == <<overflow_checks, input, pc, flat, seg_ids, deferred, lookups,
          pool, capacity, seq_data, phase, ret, handed, idx, yielded>>

---------------------------------------------------------------------------
(* Bounds and widths *)

\* width of an Id in bits (u32 in the source, scaled down)
IdBits == 2
\* at most this many lines in an input
MaxLines == 3
\* segment names are 0..MaxName
MaxName == 2
\* how many times an exhausted iterator is asked again
MaxNones == 2

IdLimit == 2 ^ IdBits
IdMax == IdLimit - 1
UsizeLimit == 2 ^ (2 * IdBits)
UsizeMax == UsizeLimit - 1
\* the model stops growing a pool one past the first count no Id can hold
MaxCount == IdLimit + 1

Min(a, b) == IF a < b THEN a ELSE b

---------------------------------------------------------------------------
(* pool.rs : Span *)

Span(s, e) == [start |-> s, end |-> e]

Span_is_empty(span) == span.start = span.end

\* From<Span> for Range<usize>
Span_range(span) == [start |-> span.start, end |-> span.end]

\* (self.end - self.start) as usize : u32 subtraction, which overflows when
\* end < start (panic with overflow checks, wrap without)
Span_len(span, checks) ==
    IF span.end >= span.start
    THEN [ok |-> TRUE, val |-> span.end - span.start]
    ELSE IF checks
         THEN [ok |-> FALSE, val |-> 0]
         ELSE [ok |-> TRUE, val |-> (span.end - span.start) % IdLimit]

---------------------------------------------------------------------------
(* pool.rs : impl Pool<T> for [T].  A pool p is a sequence; Id i is p[i+1]. *)

count(p) == Len(p)

\* mutant: the count is cast to the Id width (self.count() as Id)
next_id_truncating(p) == [ok |-> TRUE, val |-> count(p) % IdLimit]

\* self.count().try_into().expect("size too large")
next_id(p) ==
    IF count(p) <= IdMax
    THEN [ok |-> TRUE, val |-> count(p)]
    ELSE [ok |-> FALSE, val |-> 0]

\* &self[id as usize]
get_id(p, id) ==
    IF id < Len(p)
    THEN [ok |-> TRUE, val |-> <<p[id + 1]>>]
    ELSE [ok |-> FALSE, val |-> <<>>]

\* mutant: the end of the range is clamped to the pool instead of checked
get_span_clamped(p, span) ==
    LET r == Span_range(span)
    IN  IF r.start <= r.end /\ r.start <= Len(p)
        THEN [ok |-> TRUE, val |-> SubSeq(p, r.start + 1, Min(r.end, Len(p)))]
        ELSE [ok |-> FALSE, val |-> <<>>]

\* &self[span.range()] : slice indexing panics when start > end or end > len
get_span(p, span) ==
    LET r == Span_range(span)
    IN  IF r.start <= r.end /\ r.end <= Len(p)
        THEN [ok |-> TRUE, val |-> SubSeq(p, r.start + 1, r.end)]
        ELSE [ok |-> FALSE, val |-> <<>>]

---------------------------------------------------------------------------
(* pool.rs : impl Store<T> for Vec<T>.  An append returns                  *)
(* [ok, pool, val]: whether it returned, the pool it leaves, the Id/Span.  *)

\* mutant: the id is taken after the push
Vec_add_id_after_push(p, item) ==
    LET id == next_id(Append(p, item))
    IN  IF ~id.ok
        THEN [ok |-> FALSE, pool |-> Append(p, item), val |-> 0]
        ELSE [ok |-> TRUE, pool |-> Append(p, item), val |-> id.val]

\* mutant: the item is inserted in front of the existing items
Vec_add_at_front(p, item) ==
    LET id == next_id(p)
    IN  IF ~id.ok
        THEN [ok |-> FALSE, pool |-> p, val |-> 0]
        ELSE [ok |-> TRUE, pool |-> <<item>> \o p, val |-> id.val]

Vec_add(p, item) ==
    LET id == next_id(p)
    IN  IF ~id.ok
        THEN [ok |-> FALSE, pool |-> p, val |-> 0]
        ELSE [ok |-> TRUE, pool |-> Append(p, item), val |-> id.val]

Vec_add_iter(p, items) ==
    LET start == next_id(p)
        q == p \o items
        end == next_id(q)
    IN  IF ~start.ok
        THEN [ok |-> FALSE, pool |-> p, val |-> Span(0, 0)]
        ELSE IF ~end.ok
             THEN [ok |-> FALSE, pool |-> q, val |-> Span(0, 0)]
             ELSE [ok |-> TRUE, pool |-> q, val |-> Span(start.val, end.val)]

\* mutant: the end of the span is taken before the items are appended
Vec_add_slice_end_before_extend(p, slice) ==
    LET start == next_id(p)
        q == p \o slice
    IN  IF ~start.ok
        THEN [ok |-> FALSE, pool |-> p, val |-> Span(0, 0)]
        ELSE [ok |-> TRUE, pool |-> q, val |-> Span(start.val, start.val)]

Vec_add_slice(p, slice) ==
    LET start == next_id(p)
        q == p \o slice
        end == next_id(q)
    IN  IF ~start.ok
        THEN [ok |-> FALSE, pool |-> p, val |-> Span(0, 0)]
        ELSE IF ~end.ok
             THEN [ok |-> FALSE, pool |-> q, val |-> Span(0, 0)]
             ELSE [ok |-> TRUE, pool |-> q, val |-> Span(start.val, end.val)]

(* pool.rs : impl Store<T> for SliceVec<'a, T>.  cap is the length of the  *)
(* backing slice: push panics when the SliceVec is full, extend pushes     *)
(* item by item, extend_from_slice checks the whole length first.          *)

SliceVec_add(p, cap, item) ==
    LET id == next_id(p)
    IN  IF ~id.ok \/ Len(p) >= cap
        THEN [ok |-> FALSE, pool |-> p, val |-> 0]
        ELSE [ok |-> TRUE, pool |-> Append(p, item), val |-> id.val]

SliceVec_add_iter(p, cap, items) ==
    LET start == next_id(p)
        fits == Len(p) + Len(items) <= cap
        q == p \o SubSeq(items, 1, Min(Len(items), cap - Len(p)))
        end == next_id(q)
    IN  IF ~start.ok
        THEN [ok |-> FALSE, pool |-> p, val |-> Span(0, 0)]
        ELSE IF ~fits \/ ~end.ok
             THEN [ok |-> FALSE, pool |-> q, val |-> Span(0, 0)]
             ELSE [ok |-> TRUE, pool |-> q, val |-> Span(start.val, end.val)]

SliceVec_add_slice(p, cap, slice) ==
    LET start == next_id(p)
        fits == Len(p) + Len(slice) <= cap
        q == p \o slice
        end == next_id(q)
    IN  IF ~start.ok \/ ~fits
        THEN [ok |-> FALSE, pool |-> p, val |-> Span(0, 0)]
        ELSE IF ~end.ok
             THEN [ok |-> FALSE, pool |-> q, val |-> Span(0, 0)]
             ELSE [ok |-> TRUE, pool |-> q, val |-> Span(start.val, end.val)]

---------------------------------------------------------------------------
(* parse.rs : NameMap.  others is a function from names to ids.            *)

EmptyMap == [n \in {} |-> 0]

NameMap_default == [sequential_max |-> 0, others |-> EmptyMap]

\* name - 1 on a usize: underflows for name = 0
usize_dec(name, checks) ==
    IF name > 0
    THEN [ok |-> TRUE, val |-> name - 1]
    ELSE IF checks
         THEN [ok |-> FALSE, val |-> 0]
         ELSE [ok |-> TRUE, val |-> UsizeMax]

\* mutant: the sequential test compares the name itself, not name - 1
insert_compares_name(m, name, id, checks) ==
    IF name = m.sequential_max /\ name = id
    THEN [ok |-> TRUE,
          map |-> [m EXCEPT !.sequential_max = m.sequential_max + 1]]
    ELSE [ok |-> TRUE,
          map |-> [m EXCEPT !.others =
                      [n \in (DOMAIN m.others) \cup {name} |->
                          IF n = name THEN id ELSE m.others[n]]]]

\* mutant: the prefix is extended without comparing name - 1 with the id
insert_ignores_id(m, name, id, checks) ==
    LET d == usize_dec(name, checks)
    IN  IF ~d.ok
        THEN [ok |-> FALSE, map |-> m]
        ELSE IF d.val = m.sequential_max
             THEN [ok |-> TRUE,
                   map |-> [m EXCEPT !.sequential_max = m.sequential_max + 1]]
             ELSE [ok |-> TRUE,
                   map |-> [m EXCEPT !.others =
                               [n \in (DOMAIN m.others) \cup {name} |->
                                   IF n = name THEN id ELSE m.others[n]]]]

\* fn insert(&mut self, name: usize, id: u32) -> [ok, map]
insert(m, name, id, checks) ==
    LET d == usize_dec(name, checks)
    IN  IF ~d.ok
        THEN [ok |-> FALSE, map |-> m]
        ELSE IF d.val = m.sequential_max /\ d.val = id
             THEN [ok |-> TRUE,
                   map |-> [m EXCEPT !.sequential_max = m.sequential_max + 1]]
             ELSE [ok |-> TRUE,
                   map |-> [m EXCEPT !.others =
                               [n \in (DOMAIN m.others) \cup {name} |->
                                   IF n = name THEN id ELSE m.others[n]]]]

\* fn get(&self, name: usize) -> u32 : [ok, val, fast]; fast tells that the
\* sequential prefix answered.  (name - 1) as u32 truncates to the Id width.
get(m, name, checks) ==
    IF name <= m.sequential_max
    THEN LET d == usize_dec(name, checks)
         IN  IF ~d.ok
             THEN [ok |-> FALSE, val |-> 0, fast |-> TRUE]
             ELSE [ok |-> TRUE, val |-> d.val % IdLimit, fast |-> TRUE]
    ELSE IF name \in DOMAIN m.others
         THEN [ok |-> TRUE, val |-> m.others[name], fast |-> FALSE]
         ELSE [ok |-> FALSE, val |-> 0, fast |-> FALSE]

---------------------------------------------------------------------------
(* The input: GFA lines.  A line is [tag, name, link, steps]: tag is what  *)
(* its text is ("H", "S", "L", "P"; "P?" a line that starts with the byte  *)
(* P and does not parse as a path; "?" another line that does not parse;   *)
(* "" the empty line), and the other fields are what gfaline::parse_line   *)
(* reads from it.                                                          *)

Names == 0 .. MaxName
Orientation == {"Forward", "Backward"}
Flip(o) == IF o = "Forward" THEN "Backward" ELSE "Forward"

NoLink == [from_seg |-> 0, from_orient |-> "Forward",
           to_seg |-> 0, to_orient |-> "Forward"]

Line(tag, name, link, steps) ==
    [tag |-> tag, name |-> name, link |-> link, steps |-> steps]

HeaderLines == {Line("H", 0, NoLink, <<>>)}
SegmentLines == {Line("S", n, NoLink, <<>>) : n \in Names}
NextName(a) == (a + 1) % (MaxName + 1)
PrevName(a) == (a + MaxName) % (MaxName + 1)
Link(a, oa, b, ob) ==
    Line("L", 0, [from_seg |-> a, from_orient |-> oa,
                  to_seg |-> b, to_orient |-> ob], <<>>)
\* every name as from and as to, to itself and to its two neighbours, and
\* every orientation at either end
LinkLines ==
    {Link(a, "Forward", a, "Backward") : a \in Names}
    \cup {Link(a, "Backward", NextName(a), "Forward") : a \in Names}
    \cup {Link(a, "Forward", PrevName(a), "Forward") : a \in Names}
Step(n, d) == [name |-> n, dir |-> d]
\* one-step and two-step paths
StepLists ==
    {<<Step(a, FALSE)>> : a \in Names}
    \cup {<<Step(a, TRUE), Step(NextName(a), FALSE)>> : a \in Names}
PathLines == {Line("P", 0, NoLink, st) : st \in StepLists}
BadLines == {Line("P?", 0, NoLink, <<>>), Line("?", 0, NoLink, <<>>),
             Line("", 0, NoLink, <<>>)}
Lines == HeaderLines \cup SegmentLines \cup LinkLines \cup PathLines \cup BadLines

\* line.as_bytes()[0]: indexing an empty line panics
first_byte(line) ==
    IF line.tag = ""
    THEN [ok |-> FALSE, val |-> ""]
    ELSE [ok |-> TRUE, val |-> IF line.tag = "P?" THEN "P"
                               ELSE line.tag]

\* gfaline::parse_line(line): [ok, kind]
gfaline_parse_line(line) ==
    IF line.tag \in {"H", "S", "L", "P"}
    THEN [ok |-> TRUE,
          kind |-> CASE line.tag = "H" -> "Header"
                     [] line.tag = "S" -> "Segment"
                     [] line.tag = "L" -> "Link"
                     [] line.tag = "P" -> "Path"]
    ELSE [ok |-> FALSE, kind |-> "none"]

\* the sequence bytes of a segment line (one base per segment in this model)
SeqOf(line) == <<"A">>

---------------------------------------------------------------------------
(* The heap store / builder (FlatGFAStore), a bundle of Vec pools.  Each   *)
(* builder operation returns [ok, flat, val].                              *)

FlatGFAStore_default ==
    [line_order |-> <<>>, headers |-> <<>>, segs |-> <<>>, seq_data |-> <<>>,
     links |-> <<>>, paths |-> <<>>, steps |-> <<>>]

record_line(f, kind) ==
    [f EXCEPT !.line_order = Append(f.line_order, kind)]

add_header(f, data) ==
    LET r == Vec_add(f.headers, data)
    IN  [ok |-> r.ok, flat |-> [f EXCEPT !.headers = r.pool], val |-> r.val]

add_seg(f, name, seq) ==
    LET b == Vec_add_slice(f.seq_data, seq)
        r == Vec_add(f.segs, [name |-> name, seq |-> b.val])
    IN  IF ~b.ok
        THEN [ok |-> FALSE, flat |-> [f EXCEPT !.seq_data = b.pool], val |-> 0]
        ELSE [ok |-> r.ok,
              flat |-> [f EXCEPT !.seq_data = b.pool, !.segs = r.pool],
              val |-> r.val]

Handle_new(seg, orient) == [segment |-> seg, orient |-> orient]

flat_add_link(f, from, to) ==
    LET r == Vec_add(f.links, [from |-> from, to |-> to])
    IN  [ok |-> r.ok, flat |-> [f EXCEPT !.links = r.pool], val |-> r.val]

\* steps is what the step iterator yields before it ends or panics, and
\* iter_ok tells that it ended: the steps go to the shared Handle pool through
\* add_iter, and a panic of the iterator inside extend leaves them appended
flat_add_path(f, steps, iter_ok) ==
    LET s == Vec_add_iter(f.steps, steps)
        started == next_id(f.steps).ok
        r == Vec_add(f.paths, [steps |-> s.val])
    IN  IF ~iter_ok
        THEN [ok |-> FALSE,
              flat |-> [f EXCEPT !.steps = IF started THEN f.steps \o steps
                                           ELSE f.steps],
              val |-> 0]
        ELSE IF ~s.ok
             THEN [ok |-> FALSE, flat |-> [f EXCEPT !.steps = s.pool], val |-> 0]
             ELSE [ok |-> r.ok,
                   flat |-> [f EXCEPT !.steps = s.pool, !.paths = r.pool],
                   val |-> r.val]

---------------------------------------------------------------------------
(* parse.rs : Parser *)

Deferred_new == [links |-> <<>>, paths |-> <<>>]

\* one NameMap::get call as the history records it
Lookup(name, r) == [name |-> name, id |-> r.val, fast |-> r.fast]

\* mutant: a deferred path line is buffered without its line-order entry
parse_line_path_unrecorded(f, m, d, line, checks) ==
    LET b == first_byte(line)
        g == gfaline_parse_line(line)
        fs == record_line(f, "Segment")
        a == add_seg(fs, line.name, SeqOf(line))
        i == insert(m, line.name, a.val, checks)
        h == add_header(record_line(f, "Header"), "H")
    IN  IF ~b.ok
        THEN [ok |-> FALSE, flat |-> f, seg_ids |-> m, deferred |-> d]
        ELSE IF b.val = "P"
        THEN [ok |-> TRUE, flat |-> f, seg_ids |-> m,
              deferred |-> [d EXCEPT !.paths = Append(d.paths, line)]]
        ELSE IF ~g.ok
        THEN [ok |-> FALSE, flat |-> f, seg_ids |-> m, deferred |-> d]
        ELSE IF g.kind = "Header"
        THEN [ok |-> h.ok, flat |-> h.flat, seg_ids |-> m, deferred |-> d]
        ELSE IF g.kind = "Segment"
        THEN IF ~a.ok
             THEN [ok |-> FALSE, flat |-> a.flat, seg_ids |-> m, deferred |-> d]
             ELSE [ok |-> i.ok, flat |-> a.flat, seg_ids |-> i.map, deferred |-> d]
        ELSE [ok |-> TRUE, flat |-> record_line(f, "Link"), seg_ids |-> m,
              deferred |-> [d EXCEPT !.links = Append(d.links, line.link)]]

\* mutant: a line that does not parse is skipped and reading goes on
parse_line_skips_malformed(f, m, d, line, checks) ==
    LET b == first_byte(line)
        g == gfaline_parse_line(line)
        fs == record_line(f, "Segment")
        a == add_seg(fs, line.name, SeqOf(line))
        i == insert(m, line.name, a.val, checks)
        h == add_header(record_line(f, "Header"), "H")
    IN  IF ~b.ok
        THEN [ok |-> FALSE, flat |-> f, seg_ids |-> m, deferred |-> d]
        ELSE IF b.val = "P"
        THEN [ok |-> TRUE, flat |-> record_line(f, "Path"), seg_ids |-> m,
              deferred |-> [d EXCEPT !.paths = Append(d.paths, line)]]
        ELSE IF ~g.ok
        THEN [ok |-> TRUE, flat |-> f, seg_ids |-> m, deferred |-> d]
        ELSE IF g.kind = "Header"
        THEN [ok |-> h.ok, flat |-> h.flat, seg_ids |-> m, deferred |-> d]
        ELSE IF g.kind = "Segment"
        THEN IF ~a.ok
             THEN [ok |-> FALSE, flat |-> a.flat, seg_ids |-> m, deferred |-> d]
             ELSE [ok |-> i.ok, flat |-> a.flat, seg_ids |-> i.map, deferred |-> d]
        ELSE \* Link
             [ok |-> TRUE, flat |-> record_line(f, "Link"), seg_ids |-> m,
              deferred |-> [d EXCEPT !.links = Append(d.links, line.link)]]

\* fn parse_line(&mut self, line, deferred) ->
\*    [ok, flat, seg_ids, deferred]; ok = FALSE is a panic
parse_line(f, m, d, line, checks) ==
    LET b == first_byte(line)
        g == gfaline_parse_line(line)
        fs == record_line(f, "Segment")
        a == add_seg(fs, line.name, SeqOf(line))
        i == insert(m, line.name, a.val, checks)
        h == add_header(record_line(f, "Header"), "H")
    IN  IF ~b.ok
        THEN [ok |-> FALSE, flat |-> f, seg_ids |-> m, deferred |-> d]
        ELSE IF b.val = "P"
        THEN [ok |-> TRUE, flat |-> record_line(f, "Path"), seg_ids |-> m,
              deferred |-> [d EXCEPT !.paths = Append(d.paths, line)]]
        ELSE IF ~g.ok
        THEN [ok |-> FALSE, flat |-> f, seg_ids |-> m, deferred |-> d]
        ELSE IF g.kind = "Header"
        THEN [ok |-> h.ok, flat |-> h.flat, seg_ids |-> m, deferred |-> d]
        ELSE IF g.kind = "Segment"
        THEN IF ~a.ok
             THEN [ok |-> FALSE, flat |-> a.flat, seg_ids |-> m, deferred |-> d]
             ELSE [ok |-> i.ok, flat |-> a.flat, seg_ids |-> i.map, deferred |-> d]
        ELSE \* Link
             [ok |-> TRUE, flat |-> record_line(f, "Link"), seg_ids |-> m,
              deferred |-> [d EXCEPT !.links = Append(d.links, line.link)]]

\* fn add_link(&mut self, link) -> [ok, flat, gets]; gets are the lookups
\* that returned
add_link(f, m, link, checks) ==
    LET from == get(m, link.from_seg, checks)
        to == get(m, link.to_seg, checks)
        r == flat_add_link(f, Handle_new(from.val, link.from_orient),
                              Handle_new(to.val, link.to_orient))
    IN  IF ~from.ok
        THEN [ok |-> FALSE, flat |-> f, gets |-> <<>>]
        ELSE IF ~to.ok
        THEN [ok |-> FALSE, flat |-> f, gets |-> <<Lookup(link.from_seg, from)>>]
        ELSE [ok |-> r.ok, flat |-> r.flat,
              gets |-> <<Lookup(link.from_seg, from), Lookup(link.to_seg, to)>>]

\* the steps of a path whose lookups all return, up to the first that panics
RECURSIVE ResolvedPrefix(_, _, _)
ResolvedPrefix(m, steps, checks) ==
    IF steps = <<>>
    THEN 0
    ELSE IF get(m, Head(steps).name, checks).ok
         THEN 1 + ResolvedPrefix(m, Tail(steps), checks)
         ELSE 0

\* fn add_path(&mut self, path) -> [ok, flat, gets]
add_path(f, m, steps, checks) ==
    LET n == ResolvedPrefix(m, steps, checks)
        handles == [k \in 1 .. n |->
                      Handle_new(get(m, steps[k].name, checks).val,
                                 IF steps[k].dir THEN "Forward" ELSE "Backward")]
        r == flat_add_path(f, handles, n = Len(steps))
    IN  [ok |-> r.ok, flat |-> r.flat,
         gets |-> [k \in 1 .. n |->
                     Lookup(steps[k].name, get(m, steps[k].name, checks))]]

(* The steps of Parser::parse.  pc: "reading" (the for loop over the       *)
(* stream's lines), "finish" (inside finish), "done" (parse returned the   *)
(* store), "failed" (parse panicked).                                      *)

ReadLine(line) ==
    /\ pc = "reading"
    /\ Len(input) < MaxLines
    /\ LET r == parse_line(flat, seg_ids, deferred, line, overflow_checks)
       IN  /\ input' = Append(input, line)
           /\ flat' = r.flat
           /\ seg_ids' = r.seg_ids
           /\ deferred' = r.deferred
           /\ pc' = IF r.ok THEN "reading" ELSE "failed"
    /\ UNCHANGED <<overflow_checks, lookups>>

EndOfStream ==
    /\ pc = "reading"
    /\ pc' = "finish"
    /\ UNCHANGED <<overflow_checks, input, flat, seg_ids, deferred, lookups>>

\* finish: one iteration of the loop over deferred.links
FinishLink ==
    /\ pc = "finish"
    /\ deferred.links # <<>>
    /\ LET r == add_link(flat, seg_ids, Head(deferred.links), overflow_checks)
       IN  /\ flat' = r.flat
           /\ lookups' = lookups \o r.gets
           /\ pc' = IF r.ok THEN "finish" ELSE "failed"
    /\ deferred' = [deferred EXCEPT !.links = Tail(deferred.links)]
    /\ UNCHANGED <<overflow_checks, input, seg_ids>>

\* finish with the two loops interleaved: a path is added while links wait
FinishPath_before_links ==
    /\ pc = "finish"
    /\ deferred.paths # <<>>
    /\ LET line == Head(deferred.paths)
           g == gfaline_parse_line(line)
           r == add_path(flat, seg_ids, line.steps, overflow_checks)
       IN  IF ~g.ok
           THEN /\ pc' = "failed"
                /\ UNCHANGED <<flat, lookups>>
           ELSE /\ flat' = r.flat
                /\ lookups' = lookups \o r.gets
                /\ pc' = IF r.ok THEN "finish" ELSE "failed"
    /\ deferred' = [deferred EXCEPT !.paths = Tail(deferred.paths)]
    /\ UNCHANGED <<overflow_checks, input, seg_ids>>

\* finish: one iteration of the loop over deferred.paths
FinishPath ==
    /\ pc = "finish"
    /\ deferred.links = <<>>
    /\ deferred.paths # <<>>
    /\ LET line == Head(deferred.paths)
           g == gfaline_parse_line(line)
           r == add_path(flat, seg_ids, line.steps, overflow_checks)
       IN  IF ~g.ok
           THEN /\ pc' = "failed"
                /\ UNCHANGED <<flat, lookups>>
           ELSE /\ flat' = r.flat
                /\ lookups' = lookups \o r.gets
                /\ pc' = IF r.ok THEN "finish" ELSE "failed"
    /\ deferred' = [deferred EXCEPT !.paths = Tail(deferred.paths)]
    /\ UNCHANGED <<overflow_checks, input, seg_ids>>

\* finish returns self.flat
FinishReturn ==
    /\ pc = "finish"
    /\ deferred.links = <<>>
    /\ deferred.paths = <<>>
    /\ pc' = "done"
    /\ UNCHANGED <<overflow_checks, input, flat, seg_ids, deferred, lookups>>

---------------------------------------------------------------------------
(* The arena on its own: a segment pool (T = Segment) grown through Store  *)
(* and read through Pool and through the binding layer.                    *)

\* the view's sequence bytes
SeqBytes == <<"A", "C", "G">>
\* the records appended: segments [name, seq span]
Items == {[name |-> 1, seq |-> Span(0, 1)], [name |-> 2, seq |-> Span(1, 3)]}
\* what add_iter / add_slice are given: nothing, one item, two items
ItemLists == {<<>>} \cup {<<x>> : x \in Items} \cup {<<x, y>> : x \in Items, y \in Items}
Ids == 0 .. IdMax
\* the spans read: reversed, empty, of one item and of two, at every start
Spans == {sp \in {Span(s, e) : s \in Ids, e \in Ids} :
             sp.end - sp.start \in {-1, 0, 1, 2}}
\* the backing: 0 is a Vec, another value a SliceVec over a slice that long
Capacities == {0, IdMax}

Store_add(p, cap, item) ==
    IF cap = 0 THEN Vec_add(p, item) ELSE SliceVec_add(p, cap, item)
Store_add_iter(p, cap, items) ==
    IF cap = 0 THEN Vec_add_iter(p, items) ELSE SliceVec_add_iter(p, cap, items)
Store_add_slice(p, cap, slice) ==
    IF cap = 0 THEN Vec_add_slice(p, slice) ELSE SliceVec_add_slice(p, cap, slice)

Call(op, arg, ok, val) == [op |-> op, arg |-> arg, ok |-> ok, val |-> val]

\* the Ids start .. end - 1
IdsOf(span) == [k \in 1 .. (span.end - span.start) |-> span.start + k - 1]

Append_step(op, arg, r, ids) ==
    /\ pool' = r.pool
    /\ ret' = Call(op, arg, r.ok, r.val)
    /\ phase' = IF r.ok THEN "build" ELSE "panicked"
    /\ handed' = IF r.ok THEN handed \o ids ELSE handed
    /\ UNCHANGED <<capacity, seq_data>>

Add(item) ==
    /\ phase = "build"
    /\ Len(pool) < MaxCount
    /\ LET r == Store_add(pool, capacity, item)
       IN  Append_step("add", item, r, <<r.val>>)

AddIter(items) ==
    /\ phase = "build"
    /\ Len(pool) + Len(items) <= MaxCount
    /\ LET r == Store_add_iter(pool, capacity, items)
       IN  Append_step("add_iter", items, r, IdsOf(r.val))

AddSlice(slice) ==
    /\ phase = "build"
    /\ Len(pool) + Len(slice) <= MaxCount
    /\ LET r == Store_add_slice(pool, capacity, slice)
       IN  Append_step("add_slice", slice, r, IdsOf(r.val))

\* the builder hands the store over: from here on it is only read
Freeze ==
    /\ phase = "build"
    /\ phase' = "view"
    /\ ret' = Call("freeze", 0, TRUE, 0)
    /\ UNCHANGED <<pool, capacity, seq_data, handed>>

Reading == phase \in {"build", "view"}

\* mutant: the read takes the element out of the pool (a swap_remove)
GetId_takes(id) ==
    /\ Reading
    /\ LET r == get_id(pool, id)
       IN  /\ ret' = Call("get_id", id, r.ok, r.val)
           /\ pool' = IF r.ok
                      THEN [k \in 1 .. (Len(pool) - 1) |->
                              IF k = id + 1 THEN pool[Len(pool)] ELSE pool[k]]
                      ELSE pool
    /\ UNCHANGED <<capacity, seq_data, phase, handed>>

GetId(id) ==
    /\ Reading
    /\ LET r == get_id(pool, id) IN ret' = Call("get_id", id, r.ok, r.val)
    /\ UNCHANGED <<pool, capacity, seq_data, phase, handed>>

GetSpan(span) ==
    /\ Reading
    /\ LET r == get_span(pool, span) IN ret' = Call("get_span", span, r.ok, r.val)
    /\ UNCHANGED <<pool, capacity, seq_data, phase, handed>>

Count ==
    /\ Reading
    /\ ret' = Call("count", 0, TRUE, count(pool))
    /\ UNCHANGED <<pool, capacity, seq_data, phase, handed>>

NextId ==
    /\ Reading
    /\ LET r == next_id(pool) IN ret' = Call("next_id", 0, r.ok, r.val)
    /\ UNCHANGED <<pool, capacity, seq_data, phase, handed>>

(* lib.rs : the binding layer over the view {segs: pool, seq_data}.  A     *)
(* panic in a query surfaces as an exception of the caller: ok = FALSE.    *)

\* view.get_seq(&seg)
get_seq(bytes, seg) == get_span(bytes, seg.seq)

\* SegmentList::__len__
SegmentList_len(segs) == Len(segs)

\* PySegment::name : view.segs[self.id as usize].name
PySegment_name(segs, id) ==
    IF id < Len(segs)
    THEN [ok |-> TRUE, val |-> segs[id + 1].name]
    ELSE [ok |-> FALSE, val |-> 0]

\* PySegment::sequence : the bytes of view.segs[self.id as usize], copied
PySegment_sequence(segs, bytes, id) ==
    IF id < Len(segs)
    THEN get_seq(bytes, segs[id + 1])
    ELSE [ok |-> FALSE, val |-> <<>>]

PyLen ==
    /\ phase = "view"
    /\ ret' = Call("__len__", 0, TRUE, SegmentList_len(pool))
    /\ UNCHANGED <<pool, capacity, seq_data, phase, handed>>

PyName(id) ==
    /\ phase = "view"
    /\ LET r == PySegment_name(pool, id) IN ret' = Call("name", id, r.ok, r.val)
    /\ UNCHANGED <<pool, capacity, seq_data, phase, handed>>

PySequence(id) ==
    /\ phase = "view"
    /\ LET r == PySegment_sequence(pool, seq_data, id)
       IN  ret' = Call("sequence", id, r.ok, r.val)
    /\ UNCHANGED <<pool, capacity, seq_data, phase, handed>>

\* an empty store; the parser is not running
PoolInit ==
    /\ pool = <<>>
    /\ capacity \in Capacities
    /\ seq_data = SeqBytes
    /\ phase = "build"
    /\ ret = Call("none", 0, TRUE, 0)
    /\ handed = <<>>
    /\ idx = 0
    /\ yielded = <<>>
    /\ overflow_checks \in BOOLEAN
    /\ input = <<>>
    /\ pc = "idle"
    /\ flat = FlatGFAStore_default
    /\ seg_ids = NameMap_default
    /\ deferred = Deferred_new
    /\ lookups = <<>>

PoolNext ==
    \/ \E item \in Items : Add(item) /\ UNCHANGED <<parser_vars, iter_vars>>
    \/ \E items \in ItemLists : AddIter(items) /\ UNCHANGED <<parser_vars, iter_vars>>
    \/ \E slice \in ItemLists : AddSlice(slice) /\ UNCHANGED <<parser_vars, iter_vars>>
    \/ Freeze /\ UNCHANGED <<parser_vars, iter_vars>>
    \/ \E id \in Ids : GetId(id) /\ UNCHANGED <<parser_vars, iter_vars>>
    \/ \E span \in Spans : GetSpan(span) /\ UNCHANGED <<parser_vars, iter_vars>>
    \/ Count /\ UNCHANGED <<parser_vars, iter_vars>>
    \/ NextId /\ UNCHANGED <<parser_vars, iter_vars>>
    \/ PyLen /\ UNCHANGED <<parser_vars, iter_vars>>
    \/ \E id \in Ids : PyName(id) /\ UNCHANGED <<parser_vars, iter_vars>>
    \/ \E id \in Ids : PySequence(id) /\ UNCHANGED <<parser_vars, iter_vars>>

PoolSpec == PoolInit /\ [][PoolNext]_vars

\* Parser::default() and empty Deferred buffers; no arena of its own is in use
Init ==
    /\ overflow_checks \in BOOLEAN
    /\ input = <<>>
    /\ pc = "reading"
    /\ flat = FlatGFAStore_default
    /\ seg_ids = NameMap_default
    /\ deferred = Deferred_new
    /\ lookups = <<>>
    /\ pool = <<>>
    /\ capacity = 0
    /\ seq_data = <<>>
    /\ phase = "build"
    /\ ret = Call("none", 0, TRUE, 0)
    /\ handed = <<>>
    /\ idx = 0
    /\ yielded = <<>>

Next ==
    \/ \E line \in Lines : ReadLine(line) /\ UNCHANGED <<pool_vars, iter_vars>>
    \/ EndOfStream /\ UNCHANGED <<pool_vars, iter_vars>>
    \/ FinishLink /\ UNCHANGED <<pool_vars, iter_vars>>
    \/ FinishPath /\ UNCHANGED <<pool_vars, iter_vars>>
    \/ FinishReturn /\ UNCHANGED <<pool_vars, iter_vars>>

Spec == Init /\ [][Next]_vars

---------------------------------------------------------------------------
(* lib.rs : iteration over the segments of a view.  The view is any store  *)
(* a caller can hold (parsed, or mapped from a file by load), of up to     *)
(* MaxCount segments; it is frozen, so only the iterator moves.            *)

\* Option<PySegment>: the id of the segment yielded, or None
Some(id) == [some |-> TRUE, id |-> id]
None == [some |-> FALSE, id |-> 0]

\* the segment pools a view can hold
Views == UNION {[1 .. n -> Items] : n \in 0 .. MaxCount}

\* how many calls have returned None
Nones(h) == Cardinality({k \in 1 .. Len(h) : ~h[k].some})

\* SegmentIter::__next__ on a view over segs, the iterator at i: what it
\* returns and where it leaves the iterator.  segs.len() as u32 keeps the
\* low bits of the length.
SegmentIter_next(segs, i) ==
    IF i < Len(segs) % IdLimit
    THEN [val |-> Some(i), idx |-> i + 1]
    ELSE [val |-> None, idx |-> i]

\* SegmentList::__iter__ : a fresh SegmentIter { gfa, idx: 0 }
PyIter ==
    /\ phase = "view"
    /\ idx' = 0
    /\ yielded' = <<>>
    /\ ret' = Call("__iter__", 0, TRUE, 0)
    /\ UNCHANGED <<pool, capacity, seq_data, phase, handed>>

\* SegmentIter::__next__
PyNext ==
    /\ phase = "view"
    /\ Nones(yielded) < MaxNones
    /\ LET r == SegmentIter_next(pool, idx)
       IN  /\ idx' = r.idx
           /\ yielded' = Append(yielded, r.val)
           /\ ret' = Call("__next__", 0, TRUE, r.val)
    /\ UNCHANGED <<pool, capacity, seq_data, phase, handed>>

\* a view and a fresh iterator over it; neither parser nor builder runs
IterInit ==
    /\ pool \in Views
    /\ capacity = 0
    /\ seq_data = SeqBytes
    /\ phase = "view"
    /\ ret = Call("none", 0, TRUE, 0)
    /\ handed = <<>>
    /\ idx = 0
    /\ yielded = <<>>
    /\ overflow_checks \in BOOLEAN
    /\ input = <<>>
    /\ pc = "idle"
    /\ flat = FlatGFAStore_default
    /\ seg_ids = NameMap_default
    /\ deferred = Deferred_new
    /\ lookups = <<>>

IterNext ==
    \/ PyIter /\ UNCHANGED parser_vars
    \/ PyNext /\ UNCHANGED parser_vars
    \/ PyLen /\ UNCHANGED <<parser_vars, iter_vars>>

IterSpec == IterInit /\ [][IterNext]_vars

---------------------------------------------------------------------------
(* What the claims speak of, read off the input and the built store.       *)

IsSegmentLine(l) == l.tag = "S"
IsLinkLine(l) == l.tag = "L"
IsPathLine(l) == l.tag \in {"P", "P?"}

SegmentsOf(inp) == SelectSeq(inp, IsSegmentLine)
LinksOf(inp) == SelectSeq(inp, IsLinkLine)
PathsOf(inp) == SelectSeq(inp, IsPathLine)

\* the kind of a line of text
KindOf(l) ==
    CASE l.tag = "H" -> "Header"
      [] l.tag = "S" -> "Segment"
      [] l.tag = "L" -> "Link"
      [] l.tag \in {"P", "P?"} -> "Path"
      [] OTHER -> "none"

DeclaredNames(inp) == {SegmentsOf(inp)[i].name : i \in 1 .. Len(SegmentsOf(inp))}

DistinctNames(inp) ==
    \A i, j \in 1 .. Len(SegmentsOf(inp)) :
        i # j => SegmentsOf(inp)[i].name # SegmentsOf(inp)[j].name

\* the Id add_seg returned for the Segment line that declares n: segments
\* get the Ids 0, 1, 2, ... in declaration order
DeclaredId(inp, n) ==
    (CHOOSE i \in 1 .. Len(SegmentsOf(inp)) : SegmentsOf(inp)[i].name = n) - 1

\* the names a link line or a path line refers to
ReferencedNames(inp) ==
    {LinksOf(inp)[k].link.from_seg : k \in 1 .. Len(LinksOf(inp))}
    \cup {LinksOf(inp)[k].link.to_seg : k \in 1 .. Len(LinksOf(inp))}
    \cup UNION {{PathsOf(inp)[k].steps[i].name : i \in 1 .. Len(PathsOf(inp)[k].steps)} :
                 k \in 1 .. Len(PathsOf(inp))}

\* every Handle the store holds: link endpoints and path steps
StoredHandles(f) ==
    {f.links[k].from : k \in 1 .. Len(f.links)}
    \cup {f.links[k].to : k \in 1 .. Len(f.links)}
    \cup {f.steps[k] : k \in 1 .. Len(f.steps)}

\* the Handle a reference to name n with orientation o must become
ExpectedHandle(inp, n, o) == Handle_new(DeclaredId(inp, n), o)

StepOrientation(st) == IF st.dir THEN "Forward" ELSE "Backward"

\* the store holds, record for record, the links and paths of the input with
\* every name replaced by the Id of its declaration
ResolvedAsDeclared(inp, f) ==
    /\ Len(f.links) = Len(LinksOf(inp))
    /\ \A k \in 1 .. Len(f.links) :
          LET l == LinksOf(inp)[k].link
          IN  /\ f.links[k].from = ExpectedHandle(inp, l.from_seg, l.from_orient)
              /\ f.links[k].to = ExpectedHandle(inp, l.to_seg, l.to_orient)
    /\ Len(f.paths) = Len(PathsOf(inp))
    /\ \A k \in 1 .. Len(f.paths) :
          LET st == PathsOf(inp)[k].steps
              got == get_span(f.steps, f.paths[k].steps)
          IN  /\ got.ok
              /\ got.val = [i \in 1 .. Len(st) |->
                              ExpectedHandle(inp, st[i].name, StepOrientation(st[i]))]

---------------------------------------------------------------------------
(* Claims *)

\* C1: after Parser::parse returns, every Handle stored as a link endpoint
\* or as a path step carries a segment Id below the number of segments in
\* the segment pool (no dangling handles).
C1_NoDanglingHandles ==
    pc = "done" =>
        \A h \in StoredHandles(flat) : h.segment < count(flat.segs)

\* C2: for an input whose segment names are pairwise distinct, every link
\* endpoint and path step naming n is resolved to the Id add_seg returned for
\* the Segment line declaring n, with the orientation of the line, wherever
\* the Segment lines stand in the input.
C2_ForwardReferences ==
    (/\ pc = "done"
     /\ DistinctNames(input)
     /\ ReferencedNames(input) \subseteq DeclaredNames(input))
        => ResolvedAsDeclared(input, flat)

\* C3: a Link or Path that references a name no Segment line declared makes
\* the parse fail: parse returns no store.
C3_UndeclaredFails ==
    pc = "done" => ReferencedNames(input) \subseteq DeclaredNames(input)

\* C4: after inserts of pairwise distinct names with the dense
\* declaration-order ids, get(n) returns for every inserted name n the id it
\* was inserted with.
C4_LookupReturnsInserted ==
    (pc # "failed" /\ DistinctNames(input)) =>
        \A n \in DeclaredNames(input) :
            LET r == get(seg_ids, n, overflow_checks)
            IN  r.ok /\ r.val = DeclaredId(input, n)

(* C1 to C4 fail on inputs that use the segment name 0 (the underflow of   *)
(* name - 1 in NameMap).  On every other input they hold:                  *)

NameZeroAbsent == 0 \notin (ReferencedNames(input) \cup DeclaredNames(input))

C1_WithoutNameZero == NameZeroAbsent => C1_NoDanglingHandles
C2_WithoutNameZero == NameZeroAbsent => C2_ForwardReferences
C3_WithoutNameZero == NameZeroAbsent => C3_UndeclaredFails
C4_WithoutNameZero == NameZeroAbsent => C4_LookupReturnsInserted

\* the input declares its segments as 1, 2, ..., n in that order
SequentialNames(inp) ==
    \A i \in 1 .. Len(SegmentsOf(inp)) : SegmentsOf(inp)[i].name = i

\* C5: for an input whose segments are named 1..n in declaration order,
\* sequential_max is n, the explicit table is empty, and every reference
\* that is resolved is resolved by the fast path, a declared name k to Id k - 1.
C5_SequentialRoundTrip ==
    (pc # "failed" /\ SequentialNames(input)) =>
        /\ seg_ids.sequential_max = Len(SegmentsOf(input))
        /\ seg_ids.others = EmptyMap
        /\ \A k \in 1 .. Len(lookups) :
              /\ lookups[k].fast
              /\ lookups[k].name \in DeclaredNames(input)
                    => lookups[k].id = lookups[k].name - 1

C5_Witness ==
    /\ pc = "done"
    /\ SequentialNames(input)
    /\ Len(SegmentsOf(input)) = 2
    /\ \E k \in 1 .. Len(lookups) : lookups[k].name = 2 /\ lookups[k].id = 1

\* C6: record_line is called once per input line as the line is read, so
\* the line-order table has one entry per line, the i-th the kind of the
\* i-th line, deferred Link and Path lines included.
C6_LineOrderFidelity ==
    pc # "failed" =>
        flat.line_order = [i \in 1 .. Len(input) |-> KindOf(input[i])]

C6_Witness ==
    /\ pc = "done"
    /\ flat.line_order = <<"Path", "Link", "Segment">>

\* the Ids 0, 1, 2, ... in order
Dense(h) == \A k \in 1 .. Len(h) : h[k] = k - 1

\* C7: add returns the count() of just before the call and raises count()
\* by one; over any run of add / add_iter / add_slice the Ids handed out are
\* 0, 1, 2, ... in order, none handed out twice, and none is ever removed
\* (each stays below count()).
C7_DenseIds ==
    /\ [](/\ Dense(handed)
          /\ \A k \in 1 .. Len(handed) : handed[k] < count(pool))
    /\ [][(ret'.op = "add" /\ ret'.ok) =>
             /\ ret'.val = count(pool)
             /\ count(pool') = count(pool) + 1
             /\ get_id(pool', ret'.val).val = <<ret'.arg>>]_vars
    /\ [][count(pool') >= count(pool)]_vars

C7_Witness ==
    /\ ret.op = "add"
    /\ ret.ok
    /\ ret.val = 2
    /\ handed = <<0, 1, 2>>

\* C8: add_iter and add_slice return the Span from count() before the call
\* to count() after it: start <= end, len() is the number of items appended,
\* get_span of it is the appended items in order, and appending nothing
\* returns an empty span and leaves the pool as it was.
C8_SpanOfAppend ==
    [][(ret'.op \in {"add_iter", "add_slice"} /\ ret'.ok) =>
          /\ ret'.val.start = count(pool)
          /\ ret'.val.end = count(pool')
          /\ ret'.val.start <= ret'.val.end
          /\ Span_len(ret'.val, overflow_checks) = [ok |-> TRUE, val |-> Len(ret'.arg)]
          /\ get_span(pool', ret'.val) = [ok |-> TRUE, val |-> ret'.arg]
          /\ ret'.arg = <<>> => (Span_is_empty(ret'.val) /\ pool' = pool)]_vars

C8_Witness ==
    /\ ret.op = "add_slice"
    /\ ret.ok
    /\ ret.val = Span(1, 3)
    /\ ret.arg[1] # ret.arg[2]

\* C9: get_id(id) returns the element at index id when id < count() and
\* fails when id >= count(); get_span(span) fails when span.end > count()
\* and returns the elements start .. end - 1 when start <= end <= count();
\* no access outside the pool returns a value.
C9_BoundsChecked ==
    /\ ret.op = "get_id" =>
          /\ ret.ok <=> ret.arg < count(pool)
          /\ ret.ok => ret.val = <<pool[ret.arg + 1]>>
    /\ ret.op = "get_span" =>
          /\ ret.arg.end > count(pool) => ~ret.ok
          /\ (ret.arg.start <= ret.arg.end /\ ret.arg.end <= count(pool)) =>
                /\ ret.ok
                /\ ret.val = [k \in 1 .. (ret.arg.end - ret.arg.start) |->
                                pool[ret.arg.start + k]]
          /\ ret.ok => (ret.arg.start <= ret.arg.end /\ ret.arg.end <= count(pool))

C9_Witness ==
    /\ ret.op = "get_span"
    /\ ~ret.ok
    /\ count(pool) = 2
    /\ ret.arg = Span(1, 3)

ReadOps == {"get_id", "get_span", "count", "next_id", "__len__", "name", "sequence"}

\* C10: a read (get_id, get_span, count, next_id, the binding layer's
\* length, name and sequence queries) leaves every pool as it was, and a
\* query issued again returns what it returned before.
C10_ReadsAreIdempotent ==
    [][ret'.op \in ReadOps =>
          /\ pool' = pool
          /\ seq_data' = seq_data
          /\ capacity' = capacity
          /\ (ret.op = ret'.op /\ ret.arg = ret'.arg) =>
                (ret'.ok = ret.ok /\ ret'.val = ret.val)]_vars

C10_Witness ==
    /\ phase = "view"
    /\ ret.op = "sequence"
    /\ ret.ok
    /\ ret.val = <<"C", "G">>


\* the record add_link stores for a Link line, its names resolved by the
\* name map m
LinkRecord(m, l, checks) ==
    [from |-> Handle_new(get(m, l.from_seg, checks).val, l.from_orient),
     to |-> Handle_new(get(m, l.to_seg, checks).val, l.to_orient)]

\* the steps add_path stores for a Path line, its names resolved by m
StepRecords(m, st, checks) ==
    [i \in 1 .. Len(st) |->
        Handle_new(get(m, st[i].name, checks).val, StepOrientation(st[i]))]

\* what the links buffer holds for a run of Link lines
DeferredLinks(ls) == [k \in 1 .. Len(ls) |-> ls[k].link]

\* insert was called for the name n
Registered(m, n) == n \in 1 .. m.sequential_max \/ n \in DOMAIN m.others

\* C11: no link and no path reaches the builder while lines are still being
\* read; finish adds the deferred links in their input order, then the
\* deferred paths in theirs, so the k-th link record is the k-th Link line
\* and the k-th path record the k-th Path line; and when a reference is
\* resolved every segment declared anywhere in the input is registered.
C11_TwoPhaseOrder ==
    /\ pc = "reading" =>
          /\ flat.links = <<>> /\ flat.paths = <<>> /\ flat.steps = <<>>
          /\ lookups = <<>>
          /\ deferred.links = DeferredLinks(LinksOf(input))
          /\ deferred.paths = PathsOf(input)
    /\ (flat.paths # <<>> \/ flat.steps # <<>>) =>
          (deferred.links = <<>> /\ Len(flat.links) = Len(LinksOf(input)))
    /\ Len(flat.links) <= Len(LinksOf(input))
    /\ \A k \in 1 .. Len(flat.links) :
          flat.links[k] = LinkRecord(seg_ids, LinksOf(input)[k].link, overflow_checks)
    /\ Len(flat.paths) <= Len(PathsOf(input))
    /\ \A k \in 1 .. Len(flat.paths) :
          get_span(flat.steps, flat.paths[k].steps)
              = [ok |-> TRUE,
                 val |-> StepRecords(seg_ids, PathsOf(input)[k].steps, overflow_checks)]
    /\ pc = "finish" =>
          /\ deferred.links = DeferredLinks(SubSeq(LinksOf(input), Len(flat.links) + 1,
                                                   Len(LinksOf(input))))
          /\ deferred.paths = SubSeq(PathsOf(input), Len(flat.paths) + 1,
                                     Len(PathsOf(input)))
    /\ pc = "done" =>
          /\ Len(flat.links) = Len(LinksOf(input))
          /\ Len(flat.paths) = Len(PathsOf(input))
    /\ lookups # <<>> =>
          \A n \in DeclaredNames(input) : Registered(seg_ids, n)

C11_Witness ==
    /\ pc = "done"
    /\ Len(input) = 3
    /\ IsPathLine(input[1])
    /\ IsLinkLine(input[2])
    /\ IsSegmentLine(input[3])
    /\ Len(flat.links) = 1
    /\ Len(flat.paths) = 1


\* the Id of the last Segment line after the first p that declares n
LastIdBeyond(segs, p, n) ==
    (CHOOSE i \in (p + 1) .. Len(segs) :
        /\ segs[i].name = n
        /\ \A j \in (i + 1) .. Len(segs) : segs[j].name # n) - 1

\* C12: sequential_max never decreases and never exceeds the number of
\* inserts; every name k in 1..sequential_max was inserted with id k - 1;
\* sequential_max is the longest such prefix (the first sequential_max
\* declared segments are named 1..sequential_max in order and the next
\* declared one, if any, is not named sequential_max + 1); and every
\* inserted name that did not extend the prefix is in the explicit table
\* with its id (for a name inserted more than once, the id of the latest
\* insert).
C12_SequentialPrefix ==
    /\ [](pc # "failed" =>
            LET segs == SegmentsOf(input)
                sm == seg_ids.sequential_max
            IN  /\ sm <= Len(segs)
                /\ \A k \in 1 .. sm : segs[k].name = k
                /\ sm < Len(segs) => segs[sm + 1].name # sm + 1
                /\ \A i \in (sm + 1) .. Len(segs) :
                      /\ segs[i].name \in DOMAIN seg_ids.others
                      /\ seg_ids.others[segs[i].name]
                            = LastIdBeyond(segs, sm, segs[i].name))
    /\ [][seg_ids'.sequential_max >= seg_ids.sequential_max]_vars

C12_Witness ==
    /\ pc = "done"
    /\ Len(SegmentsOf(input)) = 3
    /\ seg_ids.sequential_max = 1
    /\ DOMAIN seg_ids.others = {1, 2}
    /\ seg_ids.others[1] = 1
    /\ seg_ids.others[2] = 2


\* C13: the name 0 only breaks the sequential pattern: insert(0, id)
\* records it in the explicit table without underflowing name - 1, and
\* get(0) is never answered by the fast path: it returns the id 0 was
\* registered with, or fails if 0 was never registered, and never yields a
\* value computed from a wrapped 0 - 1.
C13_NameZero ==
    /\ 0 \in DeclaredNames(input) => 0 \in DOMAIN seg_ids.others
    /\ \A k \in 1 .. Len(lookups) :
          lookups[k].name = 0 =>
              /\ ~lookups[k].fast
              /\ 0 \in DOMAIN seg_ids.others
              /\ lookups[k].id = seg_ids.others[0]

\* what the code does with the name 0 instead: with overflow checks insert
\* panics on it; without them a lookup of 0 is answered by the fast path
\* with the wrapped 0 - 1, whatever the explicit table holds
C13_NameZeroAsBuilt ==
    /\ overflow_checks => 0 \notin DOMAIN seg_ids.others
    /\ \A k \in 1 .. Len(lookups) :
          lookups[k].name = 0 =>
              /\ ~overflow_checks
              /\ lookups[k].fast
              /\ lookups[k].id = IdMax


\* the pools of the store
PoolFields == {"line_order", "headers", "segs", "seq_data", "links", "paths", "steps"}

\* the Spans the store holds, each with the pool it points into
StoredSpans(f) ==
    {[span |-> f.segs[k].seq, into |-> "seq_data"] : k \in 1 .. Len(f.segs)}
    \cup {[span |-> f.paths[k].steps, into |-> "steps"] : k \in 1 .. Len(f.paths)}

\* C14: an append never moves, rewrites or removes what a pool holds: for
\* every id below count() before an add / add_iter / add_slice, get_id(id)
\* returns the same value after it; a Span returned earlier still has
\* end <= count() and get_span of it still returns the same items; and at
\* the end of a build every stored Span is in bounds of its target pool.
C14_AppendsPreserve ==
    /\ [][\A x \in PoolFields :
             \A id \in 0 .. (count(flat[x]) - 1) :
                 /\ get_id(flat[x], id).ok
                 /\ get_id(flat'[x], id) = get_id(flat[x], id)]_vars
    /\ [][\A s \in StoredSpans(flat) :
             /\ s.span.end <= count(flat'[s.into])
             /\ get_span(flat[s.into], s.span).ok
             /\ get_span(flat'[s.into], s.span) = get_span(flat[s.into], s.span)]_vars
    /\ [](\A s \in StoredSpans(flat) :
             /\ s.span.start <= s.span.end
             /\ s.span.end <= count(flat[s.into]))

C14_Witness ==
    /\ pc = "done"
    /\ Len(flat.segs) = 1
    /\ Len(flat.paths) = 2
    /\ flat.paths[1].steps = Span(0, 1)
    /\ flat.paths[2].steps = Span(1, 2)
    /\ count(flat.steps) = 2

\* the frame of C14 on the arena alone, Vec and SliceVec: an append leaves
\* every item and every in-bounds span as it was
C14_PoolFrame ==
    [][/\ \A id \in 0 .. (count(pool) - 1) : get_id(pool', id) = get_id(pool, id)
       /\ \A sp \in Spans :
             (sp.start <= sp.end /\ sp.end <= count(pool)) =>
                 get_span(pool', sp) = get_span(pool, sp)]_vars


AppendOps == {"add", "add_iter", "add_slice"}

\* what an append returns is never a truncated or wrapped count: the Id
\* add returns is the count of before the call, an Id that get_id accepts;
\* the Span add_iter / add_slice return runs from the count of before to
\* the count of after, both Ids; and an append whose start or end is not
\* an Id does not return
AppendsNeverWrap ==
    /\ [][(ret'.op = "add" /\ ret'.ok) =>
             /\ ret'.val = count(pool)
             /\ ret'.val \in Ids
             /\ get_id(pool', ret'.val).ok]_vars
    /\ [][(ret'.op \in {"add_iter", "add_slice"} /\ ret'.ok) =>
             /\ ret'.val.start = count(pool)
             /\ ret'.val.end = count(pool) + Len(ret'.arg)
             /\ ret'.val.start \in Ids
             /\ ret'.val.end \in Ids]_vars
    /\ [][ret'.op \in AppendOps =>
             LET appended == IF ret'.op = "add" THEN 0 ELSE Len(ret'.arg)
             IN  (count(pool) \notin Ids \/ count(pool) + appended \notin Ids)
                     => ~ret'.ok]_vars

\* C15, as stated: next_id() returns exactly count() whenever the pool does
\* not hold more items than an Id can address (w-bit Ids address 2^w
\* items) and fails otherwise; consequently no append returns a truncated
\* or wrapped count.
C15_NextIdWhileAddressable ==
    /\ [](ret.op = "next_id" =>
            /\ ret.ok <=> count(pool) <= IdLimit
            /\ ret.ok => ret.val = count(pool))
    /\ AppendsNeverWrap

\* C15, amended: next_id() returns exactly count() whenever count() itself
\* is an Id (the pool holds fewer than 2^w items) and fails otherwise, a
\* pool of exactly 2^w items, every one of them addressable, included;
\* consequently no append returns a truncated or wrapped count.
C15_NextIdWhileRepresentable ==
    /\ [](ret.op = "next_id" =>
            /\ ret.ok <=> count(pool) <= IdMax
            /\ ret.ok => ret.val = count(pool))
    /\ AppendsNeverWrap

\* the last Id is handed out, the pool is full, and every item is addressable
C15_Witness ==
    /\ ret.op = "add"
    /\ ret.ok
    /\ ret.val = IdMax
    /\ count(pool) = IdLimit
    /\ \A id \in Ids : get_id(pool, id).ok
    /\ ~next_id(pool).ok


\* the line does not parse per the line grammar (the empty line included)
Malformed(l) == ~gfaline_parse_line(l).ok

\* C16: a malformed line makes the parse fail: parse returns a store only
\* if every line read parses (an empty line and a Path line found malformed
\* only in finish included); no line is processed after a malformed
\* non-path line; and no partially built graph is handed to the caller.
C16_MalformedAborts ==
    /\ pc = "done" => \A i \in 1 .. Len(input) : ~Malformed(input[i])
    /\ \A i \in 1 .. Len(input) :
          (Malformed(input[i]) /\ ~IsPathLine(input[i])) =>
              (i = Len(input) /\ pc = "failed")

\* a Path line that does not parse is found in finish, after a later
\* Segment line was processed, and the parse fails
C16_Witness ==
    /\ pc = "failed"
    /\ Len(input) = 2
    /\ input[1].tag = "P?"
    /\ IsSegmentLine(input[2])
    /\ Len(flat.segs) = 1


\* the Segment lines that declare n, by position
DeclarationsOf(inp, n) ==
    {i \in 1 .. Len(SegmentsOf(inp)) : SegmentsOf(inp)[i].name = n}

\* the Ids of the first and of the latest declaration of n
FirstId(inp, n) ==
    (CHOOSE i \in DeclarationsOf(inp, n) : \A j \in DeclarationsOf(inp, n) : i <= j) - 1
LastId(inp, n) ==
    (CHOOSE i \in DeclarationsOf(inp, n) : \A j \in DeclarationsOf(inp, n) : j <= i) - 1

\* what C17 says of a name n declared more than once
DuplicateRule(n) ==
    LET r == get(seg_ids, n, overflow_checks)
    IN  IF n <= seg_ids.sequential_max
        THEN /\ n \in DOMAIN seg_ids.others
             /\ seg_ids.others[n] = LastId(input, n)
             /\ r.ok /\ r.fast
             /\ r.val = n - 1
             /\ r.val = FirstId(input, n)
        ELSE /\ r.ok /\ ~r.fast
             /\ r.val = LastId(input, n)

\* C17: a name n inside the verified sequential prefix (n <= sequential_max)
\* that is inserted again with a different id gets an entry in the explicit
\* table, but get(n) keeps returning n - 1, the first declaration's Id, and
\* never consults the entry; for a name outside the prefix a repeated
\* insert makes get return the most recently inserted id.
C17_DuplicateNames ==
    pc # "failed" =>
        \A n \in DeclaredNames(input) :
            Cardinality(DeclarationsOf(input, n)) >= 2 => DuplicateRule(n)

\* C17 fails on the name 0 only (the underflow of C13); for every other
\* duplicated name it holds
C17_WithoutNameZero ==
    pc # "failed" =>
        \A n \in DeclaredNames(input) \ {0} :
            Cardinality(DeclarationsOf(input, n)) >= 2 => DuplicateRule(n)

\* the two cases of C17 on names other than 0, both reachable
C17_InsidePrefixCase ==
    /\ pc = "done"
    /\ seg_ids.sequential_max = 1
    /\ Cardinality(DeclarationsOf(input, 1)) = 2
    /\ seg_ids.others = [n \in {1} |-> 1]
C17_OutsidePrefixCase ==
    /\ pc = "done"
    /\ seg_ids.sequential_max = 0
    /\ Cardinality(DeclarationsOf(input, 2)) = 2
    /\ get(seg_ids, 2, overflow_checks).val = 2


\* what the k-th __next__ of a fresh iterator over n segments must return
ExpectedNext(n, k) == IF k <= n THEN Some(k - 1) ELSE None

\* C18: for a view with n segments the __next__ calls on a fresh iterator
\* yield the segments with ids 0, 1, ..., n - 1 in ascending order, each
\* exactly once, then None, and None on every further call; the iterator's
\* index never exceeds n; and SegmentList::__len__ is n.
C18_IterationYieldsAll ==
    LET n == Len(pool)
    IN  /\ \A k \in 1 .. Len(yielded) : yielded[k] = ExpectedNext(n, k)
        /\ idx <= n
        /\ ret.op = "__len__" => ret.val = n

\* as built, the iterator sees the segment count through a cast to the Id
\* width: it yields the ids below (n mod 2^w) and then None
C18_IterationAsBuilt ==
    LET n == Len(pool)
    IN  /\ \A k \in 1 .. Len(yielded) : yielded[k] = ExpectedNext(n % IdLimit, k)
        /\ idx <= n % IdLimit
        /\ ret.op = "__len__" => ret.val = n

\* C18 holds on every view whose segment count is an Id
C18_WithinIdRange == Len(pool) <= IdMax => C18_IterationYieldsAll

\* an iterator that ran to its end and was asked again, on a view whose
\* segment count is an Id
C18_ExhaustedCase ==
    /\ Len(pool) = IdMax
    /\ Len(yielded) = IdMax + MaxNones
    /\ idx = IdMax

=============================================================================
